---- MODULE Spec2Model ----
(***************************************************************************)
(* Lookup Free Quantization (LFQ): the constructor's validation, the       *)
(* binary codec (indices_to_codes and forward's index derivation), the     *)
(* shape adaptation of forward, the straight-through output and the        *)
(* entropy / commitment losses of                                          *)
(* src/vector_quantization/lookup_free_quantization.py.                    *)
(*                                                                         *)
(* Numbers.  Tensors hold float32 values (forward: x = x.float()).  A      *)
(* value is modelled by the integer k that stands for k / Unit, Unit a     *)
(* power of two, and every arithmetic result is rounded to the 24          *)
(* significant bits of float32 (Fl32), so that on this grid the model's    *)
(* arithmetic is float32's.  Only F.normalize's quotient, which is not on  *)
(* the grid, is rounded to the grid (sign kept).                           *)
(*                                                                         *)
(* Tensors.  A tensor is [shape, data] with data in row-major order, so    *)
(* that einops' rearrange / pack / unpack are modelled by what they do to  *)
(* the shape and to the order of the elements.                             *)
(***************************************************************************)
EXTENDS Integers, Sequences, FiniteSets, TLC

VARIABLES
    ctor,   \* the last constructor call: its arguments and how it ended
    lfq,    \* the LFQ module object (configuration, buffers, training flag)
    call,   \* the last forward call: its input and everything it returned
    again,  \* a further forward call made after `call` (same or related input)
    dec     \* the last indices_to_codes call: its input and its result

vars == <<ctor, lfq, call, again, dec>>

(***************************************************************************)
(* Bounds of the model.                                                    *)
(***************************************************************************)
\* values are multiples of 2^-FracBits
FracBits == 2
\* frac_per_sample_entropy is a multiple of 2^-FracDenBits
FracDenBits == 2
\* largest codebook_size tried by the constructor
MaxCodebookSize == 9
\* largest codebook_dim (bits per codebook) of the objects forward is run on
MaxCodebookDim == 2
\* largest num_codebooks
MaxCodebooks == 2
\* largest number of elements of an input tensor
MaxNumel == 4
\* largest number of spatial axes of an image input to the codec
MaxSpatial == 2
\* largest number of spatial axes of an image / video input to SpecShape
MaxVideoAxes == 3

\* float32 keeps 24 significant bits (forward: x = x.float())
MantissaBits == 24

Unit == 2 ^ FracBits

\* frac_per_sample_entropy is drawn from the multiples of 1 / FracDen, a power
\* of two, so that the float product num_tokens * frac is exact
FracDen == 2 ^ FracDenBits

(***************************************************************************)
(* Numeric helpers.                                                        *)
(***************************************************************************)
Abs(k) == IF k < 0 THEN -k ELSE k

Sign(k) == IF k > 0 THEN 1 ELSE IF k < 0 THEN -1 ELSE 0

Max2(a, b) == IF a >= b THEN a ELSE b

Min2(a, b) == IF a <= b THEN a ELSE b

\* round the magnitude a to a multiple of q, ties to the even multiple
RoundToMultiple(a, q) ==
    LET lo == (a \div q) * q
        rem == a - lo
    IN  IF 2 * rem < q THEN lo
        ELSE IF 2 * rem > q THEN lo + q
        ELSE IF (a \div q) % 2 = 0 THEN lo ELSE lo + q

\* the spacing of float32 at magnitude a (in grid steps): 2^e for the least e
\* with a < 2^(MantissaBits + e)
Ulp(a) ==
    LET e == CHOOSE e \in 0..(30 - MantissaBits) :
                 /\ a < 2 ^ (MantissaBits + e)
                 /\ \A f \in 0..(e - 1) : a >= 2 ^ (MantissaBits + f)
    IN  2 ^ e

\* float32 rounding (round to nearest, ties to even) of the exact result k
Fl32(k) == Sign(k) * RoundToMultiple(Abs(k), Ulp(Abs(k)))

\* floor of the square root
RECURSIVE ISqrtFrom(_, _)
ISqrtFrom(n, r) == IF (r + 1) * (r + 1) > n THEN r ELSE ISqrtFrom(n, r + 1)

ISqrt(n) == ISqrtFrom(n, 0)

\* quotient rounded to the nearest integer (a >= 0, b > 0)
RoundDiv(a, b) == (2 * a + b) \div (2 * b)

RECURSIVE SumSeq(_)
SumSeq(s) == IF s = <<>> THEN 0 ELSE Head(s) + SumSeq(Tail(s))

RECURSIVE Prod(_)
Prod(s) == IF s = <<>> THEN 1 ELSE Head(s) * Prod(Tail(s))

IsPowerOfTwo(n) == \E k \in 0..30 : n = 2 ^ k

\* math.log2(n).is_integer() for n >= 1
Log2IsInteger(n) == IsPowerOfTwo(n)

\* ceil(log2(n)) for n >= 1
CeilLog2(n) == CHOOSE k \in 0..30 : 2 ^ k >= n /\ \A j \in 0..(k - 1) : 2 ^ j < n

\* int(log2(n)) for n >= 1
IntLog2(n) == CHOOSE k \in 0..30 : 2 ^ k <= n /\ 2 ^ (k + 1) > n

(***************************************************************************)
(* Optional arguments: None is the empty set, a given value v is {v}.      *)
(***************************************************************************)
None == {}

Some(v) == {v}

exists(v) == v # {}

Val(v) == CHOOSE e \in v : TRUE

(***************************************************************************)
(* LFQ.__init__.  The arguments are a record; codebook_scale and           *)
(* soft_clamp_input_value are on the value grid, frac_per_sample_entropy   *)
(* is the numerator of a fraction over FracDen.  The result is             *)
(* [ok, error, obj]: the assertions in the order the code makes them.      *)
(***************************************************************************)
NoError == [kind |-> "none", check |-> "none", suggested |-> 0]

AssertionError(check, suggested) ==
    [kind |-> "AssertionError", check |-> check, suggested |-> suggested]

\* math.log2 of a number <= 0 raises ValueError("math domain error")
ValueError(check) == [kind |-> "ValueError", check |-> check, suggested |-> 0]

NoLFQ ==
    [constructed |-> FALSE, training |-> FALSE, dim |-> 0, codebook_size |-> 0,
     codebook_dim |-> 0, num_codebooks |-> 0, keep_num_codebooks_dim |-> FALSE,
     has_projections |-> FALSE, weight_seed |-> 0, channel_first |-> FALSE,
     spherical |-> FALSE, codebook_scale |-> 0, frac_per_sample_entropy |-> 0,
     activation |-> "identity", entropy_loss_weight |-> 0,
     commitment_loss_weight |-> 0, diversity_gamma |-> 0,
     experimental_softplus_entropy_loss |-> FALSE, soft_clamp |-> FALSE]

\* a suggestion that rounds the logarithm down instead of up
SuggestedSizeFloor(codebook_size) == 2 ^ IntLog2(codebook_size)

\* the suggestion of the power-of-two assertion: 2 ** ceil(log2(codebook_size))
SuggestedSize(codebook_size) == 2 ^ CeilLog2(codebook_size)

\* the object a successful construction leaves (a fresh Module is in training
\* mode)
LFQObject(a) ==
    LET codebook_size == IF exists(a.codebook_size) THEN Val(a.codebook_size)
                         ELSE 2 ^ Val(a.dim)
        codebook_dim  == IntLog2(codebook_size)
        codebook_dims == codebook_dim * a.num_codebooks
        dim           == IF exists(a.dim) THEN Val(a.dim) ELSE codebook_dims
    IN  [constructed |-> TRUE,
         training |-> TRUE,
         dim |-> dim,
         codebook_size |-> codebook_size,
         codebook_dim |-> codebook_dim,
         num_codebooks |-> a.num_codebooks,
         keep_num_codebooks_dim |->
             IF exists(a.keep_num_codebooks_dim) THEN Val(a.keep_num_codebooks_dim)
             ELSE a.num_codebooks > 1,
         has_projections |->
             IF exists(a.has_projections) THEN Val(a.has_projections)
             ELSE dim # codebook_dims,
         weight_seed |-> a.weight_seed,
         channel_first |-> a.channel_first,
         spherical |-> a.spherical,
         codebook_scale |-> a.codebook_scale,
         frac_per_sample_entropy |-> a.frac_per_sample_entropy,
         activation |-> a.straight_through_activation,
         entropy_loss_weight |-> a.entropy_loss_weight,
         commitment_loss_weight |-> a.commitment_loss_weight,
         diversity_gamma |-> a.diversity_gamma,
         experimental_softplus_entropy_loss |-> a.experimental_softplus_entropy_loss,
         soft_clamp |-> exists(a.soft_clamp_input_value)]

\* a constructor that does not validate frac_per_sample_entropy
InitErrorNoFracCheck(a) ==
    IF ~(exists(a.dim) \/ exists(a.codebook_size))
    THEN AssertionError("dim_or_codebook_size", 0)
    ELSE IF exists(a.codebook_size) /\ Val(a.codebook_size) <= 0
    THEN ValueError("log2")
    ELSE IF exists(a.codebook_size) /\ ~Log2IsInteger(Val(a.codebook_size))
    THEN AssertionError("power_of_2", SuggestedSize(Val(a.codebook_size)))
    ELSE IF a.num_codebooks > 1 /\ ~LFQObject(a).keep_num_codebooks_dim
    THEN AssertionError("keep_num_codebooks_dim", 0)
    ELSE IF exists(a.soft_clamp_input_value)
            /\ ~(Val(a.soft_clamp_input_value) >= a.codebook_scale)
    THEN AssertionError("soft_clamp_input_value", 0)
    ELSE NoError

\* the first validation that fails, or NoError
InitError(a) ==
    IF ~(exists(a.dim) \/ exists(a.codebook_size))
    THEN AssertionError("dim_or_codebook_size", 0)
    ELSE IF exists(a.codebook_size) /\ Val(a.codebook_size) <= 0
    THEN ValueError("log2")
    ELSE IF exists(a.codebook_size) /\ ~Log2IsInteger(Val(a.codebook_size))
    THEN AssertionError("power_of_2", SuggestedSize(Val(a.codebook_size)))
    ELSE IF a.num_codebooks > 1 /\ ~LFQObject(a).keep_num_codebooks_dim
    THEN AssertionError("keep_num_codebooks_dim", 0)
    ELSE IF ~(0 < a.frac_per_sample_entropy /\ a.frac_per_sample_entropy <= FracDen)
    THEN AssertionError("frac_per_sample_entropy", 0)
    ELSE IF exists(a.soft_clamp_input_value)
            /\ ~(Val(a.soft_clamp_input_value) >= a.codebook_scale)
    THEN AssertionError("soft_clamp_input_value", 0)
    ELSE NoError

LFQInit(a) ==
    LET e == InitError(a)
    IN  IF e = NoError
        THEN [ok |-> TRUE, error |-> NoError, obj |-> LFQObject(a)]
        ELSE [ok |-> FALSE, error |-> e, obj |-> NoLFQ]

\* the keyword defaults of __init__
DefaultArgs ==
    [dim |-> None, codebook_size |-> None, num_codebooks |-> 1,
     keep_num_codebooks_dim |-> None, codebook_scale |-> Unit,
     frac_per_sample_entropy |-> FracDen, has_projections |-> None,
     weight_seed |-> 0, soft_clamp_input_value |-> None,
     channel_first |-> FALSE, spherical |-> FALSE,
     straight_through_activation |-> "identity",
     entropy_loss_weight |-> 1, commitment_loss_weight |-> 1,
     diversity_gamma |-> 1, experimental_softplus_entropy_loss |-> FALSE]

\* the argument combinations the constructor is tried on
CtorArgs ==
    { [DefaultArgs EXCEPT !.dim = d, !.codebook_size = cs, !.num_codebooks = nc,
                          !.keep_num_codebooks_dim = k,
                          !.frac_per_sample_entropy = f,
                          !.soft_clamp_input_value = sc, !.codebook_scale = s] :
        d \in {None, Some(2), Some(3)},
        cs \in {None} \cup {Some(n) : n \in (-1)..MaxCodebookSize},
        nc \in 1..MaxCodebooks,
        k \in {None, Some(TRUE), Some(FALSE)},
        f \in 0..(FracDen + 1),
        sc \in {None, Some(Unit), Some(2 * Unit)},
        s \in {Unit, 2 * Unit} }

NoCall == [done |-> FALSE]

\* LFQ(**a): the constructor runs once; a failed construction leaves no object
Construct(a) ==
    /\ ~ctor.called
    /\ ctor' = [called |-> TRUE, args |-> a, ok |-> LFQInit(a).ok,
                error |-> LFQInit(a).error]
    /\ lfq' = LFQInit(a).obj
    /\ call' = NoCall
    /\ again' = NoCall
    /\ dec' = NoCall

InitCtor ==
    /\ ctor = [called |-> FALSE, args |-> DefaultArgs, ok |-> FALSE,
               error |-> NoError]
    /\ lfq = NoLFQ
    /\ call = NoCall
    /\ again = NoCall
    /\ dec = NoCall

NextCtor == \E a \in CtorArgs : Construct(a)

SpecCtor == InitCtor /\ [][NextCtor]_vars

(***************************************************************************)
(* Tensors and the einops operations the module uses.                      *)
(***************************************************************************)
Tensor(shape, data) == [shape |-> shape, data |-> data]

NoTensor == Tensor(<<>>, <<>>)

\* the sequence s as an explicit tuple: TLC evaluates the elements once
\* instead of at every application of a function constructor
Materialized(s) == s \o <<>>

\* the (B, P, Q) view of data with its last two axes exchanged: (B, Q, P)
SwapLastTwo(B, P, Q, data) ==
    [i \in 1..(B * P * Q) |->
        LET b == (i - 1) \div (Q * P)
            q == ((i - 1) % (Q * P)) \div P
            p == (i - 1) % P
        IN  data[(b * P + p) * Q + q + 1]]

\* rearrange(x, "b d ... -> b ... d")
ChannelFirstToLast(t) ==
    LET b == t.shape[1]
        d == t.shape[2]
        rest == SubSeq(t.shape, 3, Len(t.shape))
    IN  Tensor(<<b>> \o rest \o <<d>>, SwapLastTwo(b, d, Prod(rest), t.data))

\* the rearrangement with the axes left where they are
ChannelLastToFirstKeepsLayout(t) == t

\* rearrange(x, "b ... d -> b d ...")
ChannelLastToFirst(t) ==
    LET n == Len(t.shape)
        b == t.shape[1]
        d == t.shape[n]
        rest == SubSeq(t.shape, 2, n - 1)
    IN  Tensor(<<b, d>> \o rest, SwapLastTwo(b, Prod(rest), d, t.data))

\* pack([x], "b * d"): the axes between the first and the last are flattened
\* and their sizes returned as ps
PackOne(t) ==
    LET n == Len(t.shape)
        mid == SubSeq(t.shape, 2, n - 1)
    IN  [t |-> Tensor(<<t.shape[1], Prod(mid), t.shape[n]>>, t.data), ps |-> mid]

\* unpack_one(t, ps, "b * d"): the flattened axis gets the sizes ps back
UnpackOne(t, ps) ==
    Tensor(<<t.shape[1]>> \o ps \o <<t.shape[Len(t.shape)]>>, t.data)

\* the vector after the k-th one, the first after the last
SlotOfNextCodebook(data, d, k) ==
    LET next == IF k * d = Len(data) THEN 1 ELSE k + 1
    IN  SubSeq(data, (next - 1) * d + 1, next * d)

\* the k-th vector of length d of a row-major sequence
Slot(data, d, k) == SubSeq(data, (k - 1) * d + 1, k * d)

(***************************************************************************)
(* The buffers and the elementwise pieces.                                 *)
(***************************************************************************)
\* a mask with the least significant bit first
BitMaskLsbFirst(codebook_dim) == [i \in 1..codebook_dim |-> 2 ^ (i - 1)]

\* the buffer "mask": 2 ** torch.arange(codebook_dim - 1, -1, -1)
BitMask(codebook_dim) == [i \in 1..codebook_dim |-> 2 ^ (codebook_dim - i)]

\* bits_to_codes without the factor 2: bit 1 becomes 0
BitsToCodesNoDoubling(obj, bit) ==
    Fl32(Fl32(bit * obj.codebook_scale) - obj.codebook_scale)

\* bits_to_codes: bits * codebook_scale * 2 - codebook_scale
BitsToCodes(obj, bit) ==
    Fl32(Fl32(bit * obj.codebook_scale * 2) - obj.codebook_scale)

\* F.normalize(v, p=2, dim=-1): v / max(||v||, eps); the quotient is rounded
\* to the grid and, as in float32, a non-zero quotient stays non-zero
L2Norm(v) ==
    LET n2 == SumSeq([i \in 1..Len(v) |-> v[i] * v[i]])
        nrm == ISqrt(n2)
    IN  [i \in 1..Len(v) |->
            IF v[i] = 0 THEN 0
            ELSE Sign(v[i]) * Max2(1, RoundDiv(Abs(v[i]) * Unit, nrm))]

\* the product of two grid values
MulGrid(a, b) ==
    IF a = 0 \/ b = 0 THEN 0
    ELSE Sign(a) * Sign(b) * Max2(1, RoundDiv(Abs(a) * Abs(b), Unit))

\* maybe_l2norm: l2norm(t) * codebook_scale if spherical, else identity
MaybeL2Norm(obj, v) ==
    IF obj.spherical
    THEN [i \in 1..Len(v) |-> MulGrid(L2Norm(v)[i], obj.codebook_scale)]
    ELSE v

\* maybe_l2norm over the last axis (size d) of row-major data
MaybeL2NormLast(obj, data, d) ==
    [i \in 1..Len(data) |->
        MaybeL2Norm(obj, Slot(data, d, (i - 1) \div d + 1))[((i - 1) % d) + 1]]

\* torch.where(x > 0, codebook_value, -codebook_value)
QuantizeValue(obj, v) ==
    IF v > 0 THEN obj.codebook_scale ELSE -obj.codebook_scale

\* reduce((quantized > 0).int() * mask.int(), "b n c d -> b n c", "sum") for
\* one slot
SlotIndex(obj, q) ==
    SumSeq([i \in 1..Len(q) |->
               (IF q[i] > 0 THEN 1 ELSE 0) * BitMask(obj.codebook_dim)[i]])

\* (index & mask) != 0 for mask a power of two and index >= 0
BitOf(index, m) == IF (index \div m) % 2 = 1 THEN 1 ELSE 0

\* the straight-through activations tried: nn.Identity, nn.ReLU, nn.Hardtanh
Activation(name, v) ==
    CASE name = "identity" -> v
      [] name = "relu" -> Max2(0, v)
      [] name = "hardtanh" -> Max2(-Unit, Min2(Unit, v))

\* x + (quantized - x).detach()
StraightThrough(a, q) == Fl32(a + Fl32(q - a))

\* the weights of the projections: nn.Linear's parameters are whatever
\* initialisation and training left; two fixed choices stand for them
Weight(seed, i, j) == IF (i + j + seed) % 2 = 0 THEN 1 ELSE -1

Bias(seed, j) == seed * Unit

\* nn.Linear(n_in, n_out) over the last axis of row-major data
Linear(seed, data, n_in, n_out) ==
    [k \in 1..((Len(data) \div n_in) * n_out) |->
        LET r == (k - 1) \div n_out
            j == ((k - 1) % n_out) + 1
        IN  Fl32(SumSeq([i \in 1..n_in |->
                            data[r * n_in + i] * Weight(seed, i, j)])
                 + Bias(seed, j))]

\* self.project_in
ProjectIn(obj, data) ==
    IF obj.has_projections
    THEN Linear(obj.weight_seed, data, obj.dim,
                obj.codebook_dim * obj.num_codebooks)
    ELSE data

\* self.project_out
ProjectOut(obj, data) ==
    IF obj.has_projections
    THEN Linear(obj.weight_seed + 1, data,
                obj.codebook_dim * obj.num_codebooks, obj.dim)
    ELSE data

(***************************************************************************)
(* Loss values.  A softmax and an entropy are not computed: a loss value   *)
(* records the computation and the rows it was computed from, so that two  *)
(* loss values are equal when the same reduction ran over the same rows in *)
(* the same order.                                                         *)
(***************************************************************************)
\* self.zero
Zero == [kind |-> "zero", rows |-> <<>>]

\* a reduction of kind `kind` over rows; the mean of no rows is nan
Reduced(kind, rows) ==
    IF rows = <<>> THEN [kind |-> "nan", rows |-> <<>>]
    ELSE [kind |-> kind, rows |-> rows]

\* loss * weight
Times(v, w) ==
    IF v.kind = "nan" THEN v
    ELSE IF v.kind = "zero" \/ w = 0 THEN Zero
    ELSE [kind |-> "times", rows |-> <<v.kind, w>> \o v.rows]

\* a + b of two loss values
Plus(a, b) ==
    IF a.kind = "nan" THEN a
    ELSE IF b.kind = "nan" THEN b
    ELSE IF a.kind = "zero" THEN b
    ELSE IF b.kind = "zero" THEN a
    ELSE [kind |-> "plus", rows |-> <<a, b>>]

\* the elements of s at the positions pos (in the order of pos)
Select(s, pos) == [i \in 1..Len(pos) |-> s[pos[i]]]

\* the positions i of 1..n with keep[i], in increasing order
RECURSIVE PositionsFrom(_, _, _)
PositionsFrom(keep, i, n) ==
    IF i > n THEN <<>>
    ELSE (IF keep[i] THEN <<i>> ELSE <<>>) \o PositionsFrom(keep, i + 1, n)

Positions(keep) == PositionsFrom(keep, 1, Len(keep))

\* every position a token, whatever the mask says
ValidTokensIgnoringMask(msk, num_positions) == [i \in 1..num_positions |-> i]

\* the tokens prob[mask] keeps, or all of them: "b n ... -> (b n) ..."
ValidTokens(msk, num_positions) ==
    IF exists(msk) THEN Positions(Val(msk))
    ELSE [i \in 1..num_positions |-> i]

\* a sample size that rounds frac * num_tokens to the nearest integer, ties to
\* even, as Python's round does
NumSampledRounded(obj, num_tokens) ==
    LET p == num_tokens * obj.frac_per_sample_entropy
        lo == p \div FracDen
        rem == p - lo * FracDen
    IN  IF 2 * rem < FracDen THEN lo
        ELSE IF 2 * rem > FracDen THEN lo + 1
        ELSE IF lo % 2 = 0 THEN lo ELSE lo + 1

\* int(num_tokens * self.frac_per_sample_entropy)
NumSampled(obj, num_tokens) ==
    (num_tokens * obj.frac_per_sample_entropy) \div FracDen

\* whether forward draws torch.randn: training with frac_per_sample_entropy < 1
DrawsRandom(obj) == obj.training /\ obj.frac_per_sample_entropy < FracDen

\* torch.randn(num_tokens).argsort(dim=-1) < num_sampled_tokens, for the
\* permutation perm of 0..num_tokens-1 that argsort returned
RandMask(perm, num_sampled) == [i \in 1..Len(perm) |-> perm[i] < num_sampled]

\* the tokens the entropy terms are computed over
SampledTokens(obj, valid, perm) ==
    IF obj.frac_per_sample_entropy < FracDen
    THEN Select(valid, Positions(RandMask(perm, NumSampled(obj, Len(valid)))))
    ELSE valid

\* reduce(per_sample_probs, "... c d -> c d", "mean"): the tokens averaged
AvgTokens(valid, sampled) == sampled

(***************************************************************************)
(* LFQ.forward.  x is the input tensor, msk the optional validity mask     *)
(* (row-major over (b, n)), perm the permutation torch.randn(...).argsort  *)
(* returns when forward draws one, hook how maybe_distributed_mean ends    *)
(* ("identity": it returns its argument, "all_reduce": it returns another  *)
(* tensor, "raise": it raises).                                            *)
(***************************************************************************)
BlankCall(obj, x, msk) ==
    [done |-> TRUE, status |-> "ok", training |-> obj.training, x |-> x,
     mask |-> msk, hook |-> "identity", pre |-> <<>>, quantized |-> NoTensor, indices |-> NoTensor,
     aux_loss |-> Zero, per_sample_entropy |-> Zero, batch_entropy |-> Zero,
     commitment |-> Zero, events |-> <<>>, num_tokens |-> 0,
     per_sample_tokens |-> <<>>, avg_tokens |-> <<>>]

\* the call ends in an exception: nothing is returned
Raised(obj, x, msk, error, events) ==
    [BlankCall(obj, x, msk) EXCEPT !.status = error, !.events = events]

\* lines 238-263: float, channel-last, pack, the dimension assertion
Standardized(obj, x) ==
    LET xf == Tensor(x.shape, [i \in 1..Len(x.data) |-> Fl32(x.data[i])])
        x1 == IF obj.channel_first THEN ChannelFirstToLast(xf) ELSE xf
    IN  IF Len(x.shape) >= 4 THEN PackOne(x1) ELSE [t |-> x1, ps |-> <<>>]

\* lines 294-362: the entropy and commitment losses of a training call, from
\* original_input (x4) and quantized (q), both (b n c d) row-major
\* maybe_distributed_mean(avg_prob) for the hooks tried: "identity" returns
\* its argument, "all_reduce" returns the mean over the workers, another value
HookResult(hook, avg_prob) ==
    IF hook = "identity" THEN avg_prob
    ELSE [kind |-> "all_reduce", rows |-> <<avg_prob>>]

\* a training call that calls the hook before it averages the distribution
LossEventsHookBeforeMean(obj) ==
    <<"softmax", "mask">>
        \o (IF obj.frac_per_sample_entropy < FracDen
            THEN <<"randn", "subsample">> ELSE <<>>)
        \o <<"per_sample_entropy", "hook", "mean", "codebook_entropy">>

\* lines 304-333 in the order they run
LossEvents(obj) ==
    <<"softmax", "mask">>
        \o (IF obj.frac_per_sample_entropy < FracDen
            THEN <<"randn", "subsample">> ELSE <<>>)
        \o <<"per_sample_entropy", "mean", "hook", "codebook_entropy">>

TrainingLosses(obj, x4, q, msk, perm, num_positions, hook) ==
    LET w == obj.num_codebooks * obj.codebook_dim
        valid == ValidTokens(msk, num_positions)
        sampled == SampledTokens(obj, valid, perm)
        averaged == AvgTokens(valid, sampled)
        row(t) == Slot(x4, w, t)
        per_sample_entropy ==
            Reduced("mean_entropy", [i \in 1..Len(sampled) |-> row(sampled[i])])
        avg_prob ==
            Reduced("mean_prob", [i \in 1..Len(averaged) |-> row(averaged[i])])
        reduced == HookResult(hook, avg_prob)
        codebook_entropy ==
            IF reduced.kind = "nan" THEN reduced
            ELSE [kind |-> "entropy_of_mean",
                  rows |-> IF reduced.kind = "all_reduce" THEN <<reduced>>
                           ELSE reduced.rows]
        entropy_aux_loss ==
            Plus(per_sample_entropy, Times(codebook_entropy, -obj.diversity_gamma))
        softplussed ==
            IF obj.experimental_softplus_entropy_loss /\ entropy_aux_loss.kind # "nan"
            THEN [kind |-> "softplus", rows |-> <<entropy_aux_loss>>]
            ELSE entropy_aux_loss
        commit_loss ==
            IF obj.commitment_loss_weight > 0
            THEN Reduced("mean_mse",
                         [i \in 1..Len(valid) |->
                             <<row(valid[i]), Slot(q, w, valid[i])>>])
            ELSE Zero
    IN  [per_sample_entropy |-> per_sample_entropy,
         batch_entropy |-> codebook_entropy,
         entropy_aux_loss |-> softplussed,
         commitment |-> commit_loss,
         num_tokens |-> Len(valid),
         per_sample_tokens |-> sampled,
         avg_tokens |-> averaged,
         events |-> LossEvents(obj)]

\* the losses of a call in inference mode: self.zero everywhere
InferenceLosses ==
    [per_sample_entropy |-> Zero, batch_entropy |-> Zero,
     entropy_aux_loss |-> Zero, commitment |-> Zero, num_tokens |-> 0,
     per_sample_tokens |-> <<>>, avg_tokens |-> <<>>, events |-> <<>>]

\* a forward that computes the losses in either mode
LossesAlways(obj, x4, q, msk, perm, num_positions, hook) ==
    TrainingLosses(obj, x4, q, msk, perm, num_positions, hook)

Losses(obj, x4, q, msk, perm, num_positions, hook) ==
    IF obj.training
    THEN TrainingLosses(obj, x4, q, msk, perm, num_positions, hook)
    ELSE InferenceLosses

\* indices that keep the codebook axis whatever keep_num_codebooks_dim says
IndicesOutKeepAxis(obj, t) == t

\* rearrange(indices, "... 1 -> ...") unless keep_num_codebooks_dim
IndicesOut(obj, t) ==
    IF obj.keep_num_codebooks_dim THEN t
    ELSE Tensor(SubSeq(t.shape, 1, Len(t.shape) - 1), t.data)

LFQForward(obj, x, msk, perm, hook) ==
    LET std == Standardized(obj, x)
        x2 == std.t
        is_img_or_video == Len(x.shape) >= 4
    IN  IF x2.shape[Len(x2.shape)] # obj.dim
        THEN Raised(obj, x, msk, "AssertionError", <<>>)
        ELSE IF Len(x2.shape) # 3
        THEN Raised(obj, x, msk, "EinopsError", <<>>)
        ELSE
        LET b == x2.shape[1]
            n == x2.shape[2]
            c == obj.num_codebooks
            d == obj.codebook_dim
            x3 == Materialized(ProjectIn(obj, x2.data))
            x4 == Materialized(MaybeL2NormLast(obj, x3, d))
            quantized0 == Materialized([i \in 1..Len(x4) |->
                                          QuantizeValue(obj, x4[i])])
            indices == [k \in 1..(b * n * c) |->
                           SlotIndex(obj, Slot(quantized0, d, k))]
            quantized == Materialized(MaybeL2NormLast(obj, quantized0, d))
            out == IF obj.training
                   THEN [i \in 1..Len(x4) |->
                            StraightThrough(Activation(obj.activation, x4[i]),
                                            quantized[i])]
                   ELSE quantized
            loss == Losses(obj, x4, quantized, msk, perm, b * n, hook)
            y1 == Tensor(<<b, n, obj.dim>>, ProjectOut(obj, out))
            y2 == IF is_img_or_video THEN UnpackOne(y1, std.ps) ELSE y1
            y3 == IF obj.channel_first THEN ChannelLastToFirst(y2) ELSE y2
            i1 == Tensor(<<b, n, c>>, indices)
            i2 == IF is_img_or_video THEN UnpackOne(i1, std.ps) ELSE i1
            i3 == IndicesOut(obj, i2)
        IN  IF obj.training /\ hook = "raise"
            THEN [Raised(obj, x, msk, "HookError",
                         SubSeq(loss.events, 1, Len(loss.events) - 1))
                      EXCEPT !.hook = hook]
            ELSE [done |-> TRUE, status |-> "ok", training |-> obj.training,
                  x |-> x, mask |-> msk, hook |-> hook, pre |-> x4, quantized |-> y3,
                  indices |-> i3,
                  aux_loss |-> Plus(Times(loss.entropy_aux_loss,
                                          obj.entropy_loss_weight),
                                    Times(loss.commitment,
                                          obj.commitment_loss_weight)),
                  per_sample_entropy |-> loss.per_sample_entropy,
                  batch_entropy |-> loss.batch_entropy,
                  commitment |-> loss.commitment,
                  events |-> loss.events,
                  num_tokens |-> loss.num_tokens,
                  per_sample_tokens |-> loss.per_sample_tokens,
                  avg_tokens |-> loss.avg_tokens]

(***************************************************************************)
(* LFQ.indices_to_codes(indices, project_out=True).                        *)
(***************************************************************************)
IndicesToCodes(obj, ind) ==
    LET d == obj.codebook_dim
        shape1 == IF obj.keep_num_codebooks_dim THEN ind.shape
                  ELSE ind.shape \o <<1>>
        c == shape1[Len(shape1)]
        bits == [i \in 1..(Len(ind.data) * d) |->
                    BitOf(ind.data[(i - 1) \div d + 1],
                          BitMask(d)[((i - 1) % d) + 1])]
        codes == [i \in 1..Len(bits) |-> BitsToCodes(obj, bits[i])]
        normed == MaybeL2NormLast(obj, codes, d)
        merged == Tensor(SubSeq(shape1, 1, Len(shape1) - 1) \o <<c * d>>, normed)
        projected == Tensor(SubSeq(merged.shape, 1, Len(merged.shape) - 1)
                                \o <<IF obj.has_projections THEN obj.dim
                                     ELSE c * d>>,
                            ProjectOut(obj, merged.data))
    IN  [done |-> TRUE, indices |-> ind,
         codes |-> IF obj.channel_first THEN ChannelLastToFirst(projected)
                   ELSE projected]

(***************************************************************************)
(* The calls.  A run constructs one object, may switch its mode, makes one *)
(* call on a fresh input and then further calls on related inputs; `call`, *)
(* `again` and `dec` record what the calls of the run were given and       *)
(* returned.                                                               *)
(***************************************************************************)
\* the shapes with n axes and at most MaxNumel elements
RECURSIVE ShapesWithin(_, _)
ShapesWithin(n, numel) ==
    IF n = 0 THEN {<<>>}
    ELSE UNION { { <<k>> \o s : s \in ShapesWithin(n - 1, numel \div k) } :
                 k \in 1..numel }

ShapesOfLen(n) == ShapesWithin(n, MaxNumel)

\* the tensors of shape s with elements from vals
TensorsOfShape(s, vals) == { Tensor(s, data) : data \in [1..Prod(s) -> vals] }

\* the feature axis of an input: the second if channel_first, else the last
FeatureAxis(obj, s) == IF obj.channel_first THEN s[2] ELSE s[Len(s)]

\* whether forward accepts a tensor of shape s: the feature axis has size dim
\* (line 249) and "b n (c d) -> b n c d" finds three axes (line 263)
Accepts(obj, s) ==
    /\ FeatureAxis(obj, s) = obj.dim
    /\ Len(s) >= 3

\* the input shapes tried on obj with the numbers of axes ndims: the feature
\* axis of size dim, or of size dim + 1 (a tensor forward refuses)
InputShapes(obj, ndims) ==
    UNION { { s \in ShapesOfLen(n) : FeatureAxis(obj, s) \in {obj.dim, obj.dim + 1} } :
            n \in ndims }

\* the inputs tried on obj: every tensor over vals of a shape forward
\* accepts, and one tensor of each shape it refuses
InputsOfShapes(obj, shapes, vals) ==
    UNION { IF Accepts(obj, s) THEN TensorsOfShape(s, vals)
            ELSE TensorsOfShape(s, {0}) : s \in shapes }

InputsOver(obj, ndims, vals) ==
    InputsOfShapes(obj, InputShapes(obj, ndims), vals)

\* the index tensors tried on obj: values in [0, codebook_size), the last axis
\* the codebook axis when it is kept
IndexShapes(obj) ==
    UNION { { s \in ShapesOfLen(n) :
                /\ obj.keep_num_codebooks_dim => s[n] = obj.num_codebooks
                /\ Prod(s) * obj.codebook_dim
                       * (IF obj.keep_num_codebooks_dim THEN 1 ELSE obj.num_codebooks)
                     <= MaxNumel } :
            n \in 2..(2 + MaxSpatial) }

IndexInputs(obj) ==
    UNION { TensorsOfShape(s, 0..(obj.codebook_size - 1)) : s \in IndexShapes(obj) }

\* the permutations of 0..n-1, as sequences
Perms(n) ==
    { p \in [1..n -> 0..(n - 1)] : \A i, j \in 1..n : p[i] = p[j] => i = j }

\* the permutations forward can draw for a call on x: one per call that
\* draws, none otherwise
RandDraws(obj, x, msk) ==
    IF DrawsRandom(obj) /\ Accepts(obj, x.shape)
    THEN Perms(Len(ValidTokens(msk, Prod(x.shape) \div obj.dim)))
    ELSE {<<>>}

\* Module.eval()
Eval ==
    /\ lfq.constructed
    /\ lfq.training
    /\ ~call.done /\ ~dec.done
    /\ lfq' = [lfq EXCEPT !.training = FALSE]
    /\ UNCHANGED <<ctor, call, again, dec>>

\* Module.eval() between two calls
EvalBetweenCalls ==
    /\ lfq.constructed
    /\ lfq.training
    /\ call.done /\ ~again.done
    /\ lfq' = [lfq EXCEPT !.training = FALSE]
    /\ UNCHANGED <<ctor, call, again, dec>>

\* forward(x, mask=msk) on a fresh input: one of `inputs`, each [x, mask]
Forward(inputs, hooks) ==
    /\ lfq.constructed
    /\ ~call.done /\ ~dec.done
    /\ \E i \in inputs, hook \in hooks :
           \E perm \in RandDraws(lfq, i.x, i.mask) :
               call' = LFQForward(lfq, i.x, i.mask, perm, hook)
    /\ UNCHANGED <<ctor, lfq, again, dec>>

\* forward on the input of the call recorded in `call`, once more
ForwardAgain ==
    /\ lfq.constructed
    /\ call.done /\ ~again.done
    /\ \E perm \in RandDraws(lfq, call.x, call.mask) :
           again' = LFQForward(lfq, call.x, call.mask, perm, "identity")
    /\ UNCHANGED <<ctor, lfq, call, dec>>

\* indices_to_codes(ind) on fresh indices
Decode ==
    /\ lfq.constructed
    /\ ~call.done /\ ~dec.done
    /\ \E ind \in IndexInputs(lfq) : dec' = IndicesToCodes(lfq, ind)
    /\ UNCHANGED <<ctor, lfq, call, again>>

\* indices_to_codes on the indices an inference call returned
DecodeReturnedIndices ==
    /\ lfq.constructed
    /\ call.done /\ call.status = "ok" /\ ~call.training /\ ~dec.done
    /\ dec' = IndicesToCodes(lfq, call.indices)
    /\ UNCHANGED <<ctor, lfq, call, again>>

\* forward on the codes indices_to_codes returned
ForwardDecodedCodes ==
    /\ lfq.constructed
    /\ dec.done /\ ~call.done
    /\ call' = LFQForward(lfq, dec.codes, None, <<>>, "identity")
    /\ UNCHANGED <<ctor, lfq, again, dec>>

(***************************************************************************)
(* Spec: the codec.  Objects without projections, in every layout, with    *)
(* and without spherical mode; forward on fresh inputs and on decoded      *)
(* codes, indices_to_codes on fresh indices and on returned ones.          *)
(***************************************************************************)
\* the values of the fresh inputs
Vals == {-Unit, 0, Unit}

AllCodecArgs ==
    { [DefaultArgs EXCEPT !.codebook_size = Some(2 ^ d), !.num_codebooks = nc,
                          !.keep_num_codebooks_dim = k, !.channel_first = cf,
                          !.spherical = s[1], !.codebook_scale = s[2]] :
        d \in 1..MaxCodebookDim,
        nc \in 1..MaxCodebooks,
        k \in {None, Some(TRUE)},
        cf \in BOOLEAN,
        s \in {<<FALSE, Unit>>, <<FALSE, 2 * Unit>>, <<TRUE, 2 * Unit>>} }

\* num_codebooks > 1 keeps the codebook axis by default: one spelling of it
CodecArgs ==
    { a \in AllCodecArgs : a.num_codebooks > 1 => a.keep_num_codebooks_dim = None }

\* the state after LFQ(**a) for the arguments a of args
Constructed(args) ==
    /\ \E a \in args :
           /\ LFQInit(a).ok
           /\ ctor = [called |-> TRUE, args |-> a, ok |-> TRUE, error |-> NoError]
           /\ lfq = LFQInit(a).obj
    /\ call = NoCall
    /\ again = NoCall
    /\ dec = NoCall

Init == Constructed(CodecArgs)

\* forward's fresh inputs, without a mask
Unmasked(xs) == { [x |-> x, mask |-> None] : x \in xs }

Inputs(obj) == Unmasked(InputsOver(obj, 2..(2 + MaxSpatial), Vals))

Next ==
    \/ Eval
    \/ Forward(Inputs(lfq), {"identity"})
    \/ Decode
    \/ DecodeReturnedIndices
    \/ ForwardDecodedCodes

Spec == Init /\ [][Next]_vars

(***************************************************************************)
(* SpecMode: the training flag.  A call on a fresh input in either mode,   *)
(* then a second call on the same input in inference mode.  Sequence       *)
(* inputs of one batch element; the values include one beyond the          *)
(* 24 significant bits float32 keeps next to codebook_scale.               *)
(***************************************************************************)
\* a float32 value so large that its spacing exceeds 2 * codebook_scale
Big == 2 ^ (MantissaBits + FracBits + 1)

ValsMode == {-Unit, 0, Unit, Big}

ModeArgs ==
    { [DefaultArgs EXCEPT !.codebook_size = Some(2 ^ d),
                          !.straight_through_activation = act,
                          !.commitment_loss_weight = w[1],
                          !.entropy_loss_weight = w[2],
                          !.experimental_softplus_entropy_loss = w[3],
                          !.frac_per_sample_entropy = w[4]] :
        d \in 1..MaxCodebookDim,
        act \in {"identity", "relu", "hardtanh"},
        w \in {<<1, 1, FALSE, FracDen>>, <<0, 2, TRUE, FracDen \div 2>>} }

InitMode == Constructed(ModeArgs)

\* sequence inputs (b, n, d) with b = 1 and fewer than MaxNumel elements
InputsMode(obj) ==
    Unmasked(InputsOfShapes(obj,
                            { s \in InputShapes(obj, {3}) :
                                s[1] = 1 /\ Prod(s) < MaxNumel },
                            ValsMode))

\* the second call of a run is made in inference mode
ForwardAgainInference == ~lfq.training /\ ForwardAgain

NextMode ==
    \/ Eval
    \/ Forward(InputsMode(lfq), {"identity"})
    \/ EvalBetweenCalls
    \/ ForwardAgainInference

SpecMode == InitMode /\ [][NextMode]_vars

(***************************************************************************)
(* SpecShape: the shape adaptation.  Objects with and without projections  *)
(* (a dim that differs from codebook_dim * num_codebooks), sequence, image *)
(* and video inputs, channel-first and channel-last, in both modes.        *)
(***************************************************************************)
ValsShape == {-Unit, Unit}

AllShapeArgs ==
    { [DefaultArgs EXCEPT !.dim = dm, !.codebook_size = Some(2 ^ d),
                          !.num_codebooks = nc, !.keep_num_codebooks_dim = k,
                          !.channel_first = cf, !.weight_seed = seed] :
        dm \in {None} \cup {Some(n) : n \in 1..3},
        d \in 1..MaxCodebookDim,
        nc \in 1..MaxCodebooks,
        k \in {None, Some(TRUE)},
        cf \in BOOLEAN,
        seed \in {0, 1} }

\* one spelling of each object: the seed matters only with projections
ShapeArgs ==
    { a \in AllShapeArgs :
        /\ a.num_codebooks > 1 => a.keep_num_codebooks_dim = None
        /\ ~LFQObject(a).has_projections => a.weight_seed = 0 /\ a.dim = None }

InitShape == Constructed(ShapeArgs)

InputsShape(obj) == Unmasked(InputsOver(obj, 2..(2 + MaxVideoAxes), ValsShape))

NextShape ==
    \/ Eval
    \/ Forward(InputsShape(lfq), {"identity"})

SpecShape == InitShape /\ [][NextShape]_vars

(***************************************************************************)
(* SpecMask: the validity mask.  Training calls on sequence inputs with a  *)
(* mask over the (b, n) positions, then a second call whose input agrees   *)
(* with the first on the valid positions: other values at the invalid      *)
(* positions, or one more, masked-out, position per batch element.         *)
(***************************************************************************)
ValsMask == {-Unit, Unit}

MaskArgs ==
    { [DefaultArgs EXCEPT !.codebook_size = Some(2 ^ d),
                          !.spherical = sph,
                          !.commitment_loss_weight = 1] :
        d \in 1..MaxCodebookDim,
        sph \in BOOLEAN }

InitMask == Constructed(MaskArgs)

\* no mask, or any boolean mask over n positions
Masks(n) == {None} \cup { Some(m) : m \in [1..n -> BOOLEAN] }

\* the number of (b, n) positions of a sequence input
NumPositions(obj, x) == Prod(x.shape) \div x.shape[Len(x.shape)]

InputsMask(obj) ==
    UNION { { [x |-> x, mask |-> m] : m \in Masks(NumPositions(obj, x)) } :
            x \in InputsOver(obj, {3}, ValsMask) }

\* the mask of a call as a boolean per position: all valid without a mask
MaskOf(c) ==
    IF exists(c.mask) THEN Val(c.mask)
    ELSE [p \in 1..NumPositions(lfq, c.x) |-> TRUE]

\* forward with the mask of the recorded call, on an input that keeps the
\* recorded values at the valid positions and takes any at the others
ForwardVariant(vals) ==
    /\ lfq.constructed
    /\ call.done /\ call.status = "ok" /\ exists(call.mask) /\ ~again.done
    /\ \E other \in [1..Len(call.x.data) -> vals] :
           LET d == call.x.shape[3]
               data == [i \in 1..Len(call.x.data) |->
                           IF Val(call.mask)[((i - 1) \div d) + 1]
                           THEN call.x.data[i] ELSE other[i]]
               x == Tensor(call.x.shape, Materialized(data))
           IN  \E perm \in RandDraws(lfq, x, call.mask) :
                   again' = LFQForward(lfq, x, call.mask, perm, "identity")
    /\ UNCHANGED <<ctor, lfq, call, dec>>

\* forward on the recorded input with one more position appended to every
\* batch element, holding any values and marked invalid
ForwardPadded(vals) ==
    /\ lfq.constructed
    /\ call.done /\ call.status = "ok" /\ ~again.done
    /\ LET b == call.x.shape[1]
           n == call.x.shape[2]
           d == call.x.shape[3]
       IN  \E pad \in [1..(b * d) -> vals] :
               LET data == [i \in 1..(b * (n + 1) * d) |->
                               LET r == (i - 1) \div ((n + 1) * d)
                                   p == ((i - 1) % ((n + 1) * d)) \div d
                                   j == (i - 1) % d
                               IN  IF p < n
                                   THEN call.x.data[(r * n + p) * d + j + 1]
                                   ELSE pad[r * d + j + 1]]
                   msk == [k \in 1..(b * (n + 1)) |->
                              LET r == (k - 1) \div (n + 1)
                                  p == (k - 1) % (n + 1)
                              IN  p < n /\ MaskOf(call)[r * n + p + 1]]
                   x == Tensor(<<b, n + 1, d>>, Materialized(data))
                   m == Some(Materialized(msk))
               IN  \E perm \in RandDraws(lfq, x, m) :
                       again' = LFQForward(lfq, x, m, perm, "identity")
    /\ UNCHANGED <<ctor, lfq, call, dec>>

NextMask ==
    \/ Forward(InputsMask(lfq), {"identity"})
    \/ ForwardVariant(ValsMask)
    \/ ForwardPadded(ValsMask)

SpecMask == InitMask /\ [][NextMask]_vars

(***************************************************************************)
(* SpecSample: the entropy subsampling.  Training calls with every         *)
(* frac_per_sample_entropy in (0, 1] on the grid, on masked sequence       *)
(* inputs of every token count, with every permutation argsort can return. *)
(***************************************************************************)
ValsSample == {Unit}

SampleArgs ==
    { [DefaultArgs EXCEPT !.codebook_size = Some(2 ^ d),
                          !.frac_per_sample_entropy = f] :
        d \in 1..MaxCodebookDim,
        f \in 1..FracDen }

InitSample == Constructed(SampleArgs)

InputsSample(obj) ==
    UNION { { [x |-> x, mask |-> m] : m \in Masks(NumPositions(obj, x)) } :
            x \in InputsOver(obj, {3}, ValsSample) }

NextSample ==
    \/ Eval
    \/ Forward(InputsSample(lfq), {"identity"})

SpecSample == InitSample /\ [][NextSample]_vars

(***************************************************************************)
(* SpecHook: the reduction hook.  Calls in either mode with a hook that    *)
(* returns its argument, one that returns another tensor and one that      *)
(* raises, with and without subsampling, on masked sequence inputs.        *)
(***************************************************************************)
Hooks == {"identity", "all_reduce", "raise"}

HookArgs ==
    { [DefaultArgs EXCEPT !.codebook_size = Some(2 ^ d),
                          !.frac_per_sample_entropy = f] :
        d \in 1..MaxCodebookDim,
        f \in {FracDen \div 2, FracDen} }

InitHook == Constructed(HookArgs)

NextHook ==
    \/ Eval
    \/ Forward(InputsSample(lfq), Hooks)

SpecHook == InitHook /\ [][NextHook]_vars

(***************************************************************************)
(* SpecSlot: several codebooks.  Objects without projections and with more *)
(* than one codebook, spherical or not, in both layouts and both modes;    *)
(* a call on a fresh input, then a call on any other input of its shape.   *)
(***************************************************************************)
ValsSlot == {-Unit, 2 * Unit}

SlotArgs ==
    { [DefaultArgs EXCEPT !.codebook_size = Some(2 ^ d), !.num_codebooks = nc,
                          !.channel_first = cf, !.spherical = sph] :
        d \in 1..MaxCodebookDim,
        nc \in 2..MaxCodebooks,
        cf \in BOOLEAN,
        sph \in BOOLEAN }

InitSlot == Constructed(SlotArgs)

InputsSlot(obj) == Unmasked(InputsOver(obj, {3, 4}, ValsSlot))

\* forward on another input of the shape of the recorded call
ForwardOther(vals) ==
    /\ lfq.constructed
    /\ call.done /\ call.status = "ok" /\ ~again.done
    /\ \E x \in TensorsOfShape(call.x.shape, vals) :
           \E perm \in RandDraws(lfq, x, call.mask) :
               again' = LFQForward(lfq, x, call.mask, perm, "identity")
    /\ UNCHANGED <<ctor, lfq, call, dec>>

NextSlot ==
    \/ Eval
    \/ Forward(InputsSlot(lfq), {"identity"})
    \/ ForwardOther(ValsSlot)

SpecSlot == InitSlot /\ [][NextSlot]_vars

(***************************************************************************)
(* Properties of the constructor.                                          *)
(***************************************************************************)
\* the codebook_size the constructor was given is not a power of two
GivenSizeNotPowerOfTwo ==
    /\ ctor.called
    /\ exists(ctor.args.codebook_size)
    /\ ~IsPowerOfTwo(Val(ctor.args.codebook_size))

\* p is a power of two with no other power of two closer to n
NearestPowerOfTwo(p, n) ==
    /\ IsPowerOfTwo(p)
    /\ \A k \in 0..30 : Abs(p - n) <= Abs(2 ^ k - n)

\* C4 as stated: for every codebook_size >= 1 that is not a power of two,
\* construction fails and the size its message names is the power of two
\* nearest to codebook_size.
C4_NamesNearestPowerOfTwo ==
    (GivenSizeNotPowerOfTwo /\ Val(ctor.args.codebook_size) >= 1)
        => /\ ~ctor.ok
           /\ NearestPowerOfTwo(ctor.error.suggested, Val(ctor.args.codebook_size))

\* C4 amended: for every codebook_size >= 1 that is not a power of two,
\* construction fails in the power-of-two assertion, whose message names the
\* smallest power of two above codebook_size (2 ** ceil(log2(codebook_size)));
\* for a codebook_size <= 0 construction fails in log2 itself (math domain
\* error) and names no size.
C4_NamesNextPowerOfTwo ==
    GivenSizeNotPowerOfTwo =>
        LET n == Val(ctor.args.codebook_size)
            p == ctor.error.suggested
        IN  /\ ~ctor.ok
            /\ lfq = NoLFQ
            /\ n >= 1 => /\ ctor.error.kind = "AssertionError"
                         /\ ctor.error.check = "power_of_2"
                         /\ IsPowerOfTwo(p)
                         /\ p > n
                         /\ p < 2 * n
            /\ n <= 0 => /\ ctor.error.kind = "ValueError"
                         /\ p = 0

\* C4 witness: codebook_size = 5 was refused, 4 is nearer than the size named
C4_Witness ==
    /\ GivenSizeNotPowerOfTwo
    /\ Val(ctor.args.codebook_size) = 5
    /\ ~ctor.ok
    /\ Abs(4 - 5) < Abs(ctor.error.suggested - 5)

\* the four defects the claim lists, read off the arguments
DefectNoDimNoSize == ~exists(ctor.args.dim) /\ ~exists(ctor.args.codebook_size)

DefectNotPowerOfTwo ==
    exists(ctor.args.codebook_size) /\ ~IsPowerOfTwo(Val(ctor.args.codebook_size))

DefectCodebookAxisDropped ==
    /\ ctor.args.num_codebooks > 1
    /\ ctor.args.keep_num_codebooks_dim = Some(FALSE)

DefectSoftClampBelowScale ==
    /\ exists(ctor.args.soft_clamp_input_value)
    /\ Val(ctor.args.soft_clamp_input_value) < ctor.args.codebook_scale

\* the defect the claim does not list: frac_per_sample_entropy outside (0, 1]
DefectFracOutOfRange ==
    \/ ctor.args.frac_per_sample_entropy <= 0
    \/ ctor.args.frac_per_sample_entropy > FracDen

ListedDefect ==
    \/ DefectNoDimNoSize
    \/ DefectNotPowerOfTwo
    \/ DefectCodebookAxisDropped
    \/ DefectSoftClampBelowScale

\* C5 as stated: construction fails exactly when the configuration has one of
\* the four listed defects (neither dim nor codebook_size; codebook_size not a
\* power of two; num_codebooks > 1 with keep_num_codebooks_dim false;
\* soft_clamp_input_value < codebook_scale).
C5_FailsExactlyOnListedDefects ==
    ctor.called => (~ctor.ok <=> ListedDefect)

\* C5 amended: construction fails exactly when the configuration has one of
\* the four listed defects or frac_per_sample_entropy lies outside (0, 1];
\* every other configuration constructs an object.
C5_FailsExactlyOnFiveDefects ==
    ctor.called =>
        /\ ~ctor.ok <=> (ListedDefect \/ DefectFracOutOfRange)
        /\ ctor.ok <=> lfq.constructed
        /\ ctor.ok <=> ctor.error = NoError

\* C5 witness: a construction refused for frac_per_sample_entropy alone
C5_Witness ==
    /\ ctor.called
    /\ ~ctor.ok
    /\ ~ListedDefect
    /\ ctor.error.check = "frac_per_sample_entropy"

(***************************************************************************)
(* Properties of the codec (Spec).                                         *)
(***************************************************************************)
\* forward ran on exactly the codes indices_to_codes returned
ForwardRanOnDecodedCodes ==
    /\ dec.done
    /\ call.done
    /\ call.x = dec.codes

\* C1: without projections and without spherical mode, decoding any indices
\* in [0, codebook_size) with indices_to_codes and running forward on the
\* resulting codes returns the same indices (forward accepts the codes
\* whenever they have a position axis).
C1_EncodeDecodeRoundTrip ==
    (ForwardRanOnDecodedCodes /\ ~lfq.spherical /\ ~lfq.has_projections)
        => /\ Len(dec.codes.shape) >= 3 => call.status = "ok"
           /\ call.status = "ok" => call.indices = dec.indices

\* C1 witness: a round trip of two-bit indices that holds both 1 and 2, with
\* a codebook scale other than 1
C1_Witness ==
    /\ ForwardRanOnDecodedCodes
    /\ ~lfq.spherical
    /\ call.status = "ok"
    /\ lfq.codebook_dim = 2
    /\ lfq.codebook_scale = 2 * Unit
    /\ \E i, j \in 1..Len(dec.indices.data) :
           dec.indices.data[i] = 1 /\ dec.indices.data[j] = 2

\* indices_to_codes ran on exactly the indices an inference call returned
DecodedReturnedIndices ==
    /\ call.done
    /\ call.status = "ok"
    /\ ~call.training
    /\ dec.done
    /\ dec.indices = call.indices

\* C2: without projections and in inference mode, indices_to_codes applied
\* to the indices forward returned gives the quantized tensor the same call
\* returned, element for element and in the same layout, in every layout
\* (sequence or image, channel-first or channel-last), for every
\* num_codebooks, spherical or not.
C2_DecodeReconstructsQuantized ==
    (DecodedReturnedIndices /\ ~lfq.has_projections)
        => /\ dec.codes.shape = call.quantized.shape
           /\ dec.codes.data = call.quantized.data
           /\ dec.codes.shape = call.x.shape

\* C2 witness: a channel-first image in spherical mode with two bits per
\* code, the quantized tensor holding both signs
C2_Witness ==
    /\ DecodedReturnedIndices
    /\ lfq.spherical
    /\ lfq.channel_first
    /\ lfq.codebook_dim = 2
    /\ Len(call.x.shape) = 4
    /\ \E i, j \in 1..Len(call.quantized.data) :
           call.quantized.data[i] < 0 /\ call.quantized.data[j] > 0

\* the index of slot k computed from the pre-threshold vector alone, most
\* significant bit first, a component > 0 being a set bit
MsbFirstIndex(k) ==
    LET d == lfq.codebook_dim
    IN  SumSeq([i \in 1..d |->
                   IF call.pre[(k - 1) * d + i] > 0 THEN 2 ^ (d - i) ELSE 0])

\* C3: for every position and codebook slot the index forward returns is the
\* sum over the bit positions i of [x_i > 0] * 2^(codebook_dim - 1 - i) of
\* the slot's pre-threshold vector x, a zero component counting as bit 0
\* (and being quantized to -codebook_scale); every index lies in
\* [0, codebook_size).
C3_IndexIsMsbFirstThreshold ==
    (call.done /\ call.status = "ok") =>
        /\ Len(call.indices.data) * lfq.codebook_dim = Len(call.pre)
        /\ \A k \in 1..Len(call.indices.data) :
               /\ call.indices.data[k] = MsbFirstIndex(k)
               /\ call.indices.data[k] \in 0..(lfq.codebook_size - 1)
        /\ (~call.training /\ ~lfq.spherical /\ ~lfq.channel_first) =>
               \A j \in 1..Len(call.pre) :
                   call.quantized.data[j] =
                       IF call.pre[j] > 0 THEN lfq.codebook_scale
                       ELSE -lfq.codebook_scale

\* C3 witness: two-bit slots, one holding (0, +) with index 1 and one holding
\* (+, 0) with index 2
C3_Witness ==
    /\ call.done
    /\ call.status = "ok"
    /\ lfq.codebook_dim = 2
    /\ \E k, m \in 1..Len(call.indices.data) :
           /\ call.pre[2 * k - 1] = 0 /\ call.pre[2 * k] > 0
           /\ call.indices.data[k] = 1
           /\ call.pre[2 * m - 1] > 0 /\ call.pre[2 * m] = 0
           /\ call.indices.data[m] = 2

(***************************************************************************)
(* Properties of the training flag (SpecMode).                             *)
(***************************************************************************)
\* the losses and the trace of a call are those of a call that computed
\* nothing: zero everywhere, no random draw, no reduction hook
NoLossComputed(c) ==
    /\ c.aux_loss = Zero
    /\ c.per_sample_entropy = Zero
    /\ c.batch_entropy = Zero
    /\ c.commitment = Zero
    /\ \A i \in 1..Len(c.events) : c.events[i] \notin {"randn", "hook"}
    /\ c.per_sample_tokens = <<>>

\* two inference calls on the same input were made
TwoInferenceCalls ==
    /\ call.done /\ ~call.training
    /\ again.done /\ ~again.training
    /\ again.x = call.x

\* C9: with training mode off, for every configuration (any
\* frac_per_sample_entropy, any loss weights, softplus or not) forward
\* returns an auxiliary loss of exactly zero with all three breakdown
\* components zero, draws no random number and calls no reduction hook, and
\* two calls on the same input return the same quantized output and the
\* same indices (or are refused alike).
C9_InferenceIsDeterministicAndLossFree ==
    /\ (call.done /\ ~call.training) => NoLossComputed(call)
    /\ (again.done /\ ~again.training) => NoLossComputed(again)
    /\ TwoInferenceCalls =>
           /\ again.status = call.status
           /\ again.quantized = call.quantized
           /\ again.indices = call.indices

\* C9 witness: two accepted inference calls on the same input of an object
\* with frac_per_sample_entropy < 1, softplus on and a non-zero entropy weight
C9_Witness ==
    /\ TwoInferenceCalls
    /\ call.status = "ok"
    /\ lfq.frac_per_sample_entropy < FracDen
    /\ lfq.experimental_softplus_entropy_loss
    /\ lfq.entropy_loss_weight > 0
    /\ Len(call.quantized.data) > 1

\* a training call and then an inference call on the same input were made
TrainingThenInferenceCall ==
    /\ call.done /\ call.status = "ok" /\ call.training
    /\ again.done /\ ~again.training
    /\ again.x = call.x

\* C10: for every input and every straight-through activation, the quantized
\* output and the indices forward returns in training mode equal those it
\* returns in inference mode for the same input.
C10_TrainingOutputEqualsInferenceOutput ==
    TrainingThenInferenceCall =>
        /\ call.quantized = again.quantized
        /\ call.indices = again.indices

(***************************************************************************)
(* Properties of the shape adaptation (SpecShape).                         *)
(***************************************************************************)
\* the shape s without its feature axis
WithoutFeatureAxis(s) ==
    IF lfq.channel_first THEN <<s[1]>> \o SubSeq(s, 3, Len(s))
    ELSE SubSeq(s, 1, Len(s) - 1)

\* C6: forward accepts the inputs with a batch axis, at least one position
\* axis and a feature axis of size dim (last, or second when channel_first);
\* for every accepted input the quantized output has exactly the input's
\* shape, and the indices have the input's shape with the feature axis
\* removed, followed by a num_codebooks axis exactly when
\* keep_num_codebooks_dim is true.
C6_ForwardPreservesShape ==
    call.done =>
        /\ call.status = "ok" <=>
               /\ Len(call.x.shape) >= 3
               /\ call.x.shape[IF lfq.channel_first THEN 2
                                ELSE Len(call.x.shape)] = lfq.dim
        /\ call.status = "ok" =>
               /\ call.quantized.shape = call.x.shape
               /\ Len(call.quantized.data) = Prod(call.x.shape)
               /\ call.indices.shape =
                      WithoutFeatureAxis(call.x.shape)
                          \o (IF lfq.keep_num_codebooks_dim
                              THEN <<lfq.num_codebooks>> ELSE <<>>)
               /\ Len(call.indices.data) = Prod(call.indices.shape)

\* C6 witness: a channel-first video (three spatial axes, one of size 2) into
\* an object with projections whose dim is not the size of that axis
C6_Witness ==
    /\ call.done
    /\ call.status = "ok"
    /\ lfq.channel_first
    /\ lfq.has_projections
    /\ Len(call.x.shape) = 5
    /\ call.x.shape[2] # call.x.shape[5]
    /\ call.indices.shape = <<call.x.shape[1], call.x.shape[3],
                              call.x.shape[4], call.x.shape[5]>>

(***************************************************************************)
(* Properties of the validity mask (SpecMask).                             *)
(***************************************************************************)
\* the feature vectors of the input of call c at its valid positions, in order
ValidRows(c) ==
    LET d == c.x.shape[3]
        keep == MaskOf(c)
        rows[p \in 0..Len(keep)] ==
            IF p = 0 THEN <<>>
            ELSE IF keep[p]
                 THEN Append(rows[p - 1], SubSeq(c.x.data, (p - 1) * d + 1, p * d))
                 ELSE rows[p - 1]
    IN  rows[Len(keep)]

TwoTrainingCalls ==
    /\ call.done /\ call.status = "ok" /\ call.training
    /\ again.done /\ again.status = "ok" /\ again.training

\* C7: in training mode with frac_per_sample_entropy = 1, two calls whose
\* inputs hold the same values at the positions their masks mark valid --
\* other values at the invalid positions, or extra masked-out positions --
\* return the same per-sample entropy, the same batch entropy and the same
\* commitment loss.
C7_MaskedPositionsDoNotInfluenceLosses ==
    ( /\ TwoTrainingCalls
      /\ lfq.frac_per_sample_entropy = FracDen
      /\ ValidRows(call) = ValidRows(again) )
    => /\ again.per_sample_entropy = call.per_sample_entropy
       /\ again.batch_entropy = call.batch_entropy
       /\ again.commitment = call.commitment

\* C7 witness: two calls with the same mask, valid and invalid positions in
\* it, inputs that differ at an invalid position, a commitment loss computed
C7_Witness ==
    /\ TwoTrainingCalls
    /\ lfq.frac_per_sample_entropy = FracDen
    /\ again.mask = call.mask
    /\ again.x # call.x
    /\ ValidRows(call) = ValidRows(again)
    /\ ValidRows(call) # <<>>
    /\ call.commitment # Zero
    /\ again.commitment = call.commitment

\* the same with a position appended: the second input is longer
C7_WitnessPadded ==
    /\ TwoTrainingCalls
    /\ again.x.shape[2] = call.x.shape[2] + 1
    /\ call.x.shape[1] = 2
    /\ ValidRows(call) # <<>>
    /\ again.per_sample_entropy = call.per_sample_entropy

(***************************************************************************)
(* Properties of the entropy subsampling (SpecSample).                     *)
(***************************************************************************)
SubsampledCall ==
    /\ call.done /\ call.status = "ok" /\ call.training
    /\ lfq.frac_per_sample_entropy < FracDen

\* round(frac_per_sample_entropy * T): the nearest integer, a tie to the even
RoundedFraction(T) ==
    LET p == T * lfq.frac_per_sample_entropy
        below == p \div FracDen
    IN  CASE 2 * (p - below * FracDen) < FracDen -> below
          [] 2 * (p - below * FracDen) > FracDen -> below + 1
          [] OTHER -> below + (below % 2)

\* the tokens are distinct valid tokens
DistinctValidTokens(tokens) ==
    /\ \A i, j \in 1..Len(tokens) : tokens[i] = tokens[j] => i = j
    /\ \A i \in 1..Len(tokens) :
           tokens[i] \in { p \in 1..Len(MaskOf(call)) : MaskOf(call)[p] }

\* C8 as stated: in training mode with frac_per_sample_entropy < 1, for every
\* number T of unmasked tokens the subset used for the entropy terms holds
\* exactly round(frac_per_sample_entropy * T) distinct tokens, and the batch
\* distribution is averaged over that same subset.
C8_SubsetHasRoundedSize ==
    SubsampledCall =>
        /\ Len(call.per_sample_tokens) = RoundedFraction(call.num_tokens)
        /\ DistinctValidTokens(call.per_sample_tokens)
        /\ call.avg_tokens = call.per_sample_tokens

\* C8 amended: the subset holds exactly int(frac_per_sample_entropy * T)
\* distinct tokens, the product truncated and not rounded, and the batch
\* distribution is averaged over that same subset.
C8_SubsetHasTruncatedSize ==
    SubsampledCall =>
        LET size == Len(call.per_sample_tokens)
            T == call.num_tokens
        IN  /\ T = Cardinality({ p \in 1..Len(MaskOf(call)) : MaskOf(call)[p] })
            /\ size * FracDen <= T * lfq.frac_per_sample_entropy
            /\ T * lfq.frac_per_sample_entropy < (size + 1) * FracDen
            /\ DistinctValidTokens(call.per_sample_tokens)
            /\ call.avg_tokens = call.per_sample_tokens

\* C8 witness: a subsampled call where truncating and rounding differ and a
\* token is left out of a non-empty subset
C8_Witness ==
    /\ SubsampledCall
    /\ exists(call.mask)
    /\ Len(call.per_sample_tokens) >= 1
    /\ Len(call.per_sample_tokens) < call.num_tokens
    /\ Len(call.per_sample_tokens) # RoundedFraction(call.num_tokens)

(***************************************************************************)
(* Properties of the reduction hook (SpecHook).                            *)
(***************************************************************************)
\* a training call on an input forward accepts
TrainingCallOnAcceptedInput ==
    /\ call.done /\ call.training
    /\ Len(call.x.shape) >= 3
    /\ call.x.shape[Len(call.x.shape)] = lfq.dim

\* where the event e occurs in the call
Occurrences(e) == { i \in 1..Len(call.events) : call.events[i] = e }

\* every occurrence of e comes before every occurrence of f
Precedes(e, f) == \A i \in Occurrences(e), j \in Occurrences(f) : i < j

\* the entropy of what the hook returned for the mean over the sampled tokens
EntropyOfHookReturn ==
    LET w == lfq.num_codebooks * lfq.codebook_dim
        tokens == call.per_sample_tokens
        rows == [i \in 1..Len(tokens) |->
                    SubSeq(call.pre, (tokens[i] - 1) * w + 1, tokens[i] * w)]
        avg == IF Len(tokens) = 0 THEN [kind |-> "nan", rows |-> <<>>]
               ELSE [kind |-> "mean_prob", rows |-> rows]
        ret == IF call.hook = "all_reduce"
               THEN [kind |-> "all_reduce", rows |-> <<avg>>] ELSE avg
    IN  IF ret.kind = "nan" THEN ret
        ELSE [kind |-> "entropy_of_mean",
              rows |-> IF call.hook = "all_reduce" THEN <<ret>> ELSE ret.rows]

\* C11: a training call on an accepted input invokes the reduction hook
\* exactly once, after the distributions were masked, subsampled (when
\* frac_per_sample_entropy < 1) and averaged, and before the batch entropy is
\* computed; the batch entropy is that of the hook's return value; a hook
\* that raises ends the call with its error and without a result.
C11_HookOnceBetweenMeanAndEntropy ==
    TrainingCallOnAcceptedInput =>
        /\ Cardinality(Occurrences("hook")) = 1
        /\ Cardinality(Occurrences("mask")) = 1
        /\ Cardinality(Occurrences("mean")) = 1
        /\ Cardinality(Occurrences("subsample"))
               = (IF lfq.frac_per_sample_entropy < FracDen THEN 1 ELSE 0)
        /\ Precedes("mask", "hook")
        /\ Precedes("subsample", "hook")
        /\ Precedes("mean", "hook")
        /\ Precedes("hook", "codebook_entropy")
        /\ call.hook # "raise" =>
               /\ call.status = "ok"
               /\ Cardinality(Occurrences("codebook_entropy")) = 1
               /\ call.batch_entropy = EntropyOfHookReturn
        /\ call.hook = "raise" =>
               /\ call.status = "HookError"
               /\ Occurrences("codebook_entropy") = {}
               /\ call.quantized = NoTensor
               /\ call.indices = NoTensor
               /\ call.batch_entropy = Zero
               /\ call.aux_loss = Zero

\* C11 witness: a subsampled, masked training call whose hook returned
\* another tensor, the batch entropy being computed from it
C11_Witness ==
    /\ TrainingCallOnAcceptedInput
    /\ call.hook = "all_reduce"
    /\ call.status = "ok"
    /\ lfq.frac_per_sample_entropy < FracDen
    /\ exists(call.mask)
    /\ Len(call.per_sample_tokens) >= 1
    /\ call.batch_entropy.kind = "entropy_of_mean"
    /\ call.batch_entropy.rows[1].kind = "all_reduce"

\* a training call ended by the hook's failure
C11_WitnessHookRaised ==
    /\ TrainingCallOnAcceptedInput
    /\ call.hook = "raise"
    /\ call.status = "HookError"
    /\ call.events[Len(call.events)] = "hook"

(***************************************************************************)
(* Properties of the codebook slots (SpecSlot).                            *)
(***************************************************************************)
\* two accepted calls on inputs of one shape, in one mode
TwoCallsOnOneShape ==
    /\ call.done /\ call.status = "ok"
    /\ again.done /\ again.status = "ok"
    /\ again.training = call.training
    /\ again.x.shape = call.x.shape

\* the number of (batch, position) places of the input
Places == Prod(call.x.shape) \div lfq.dim

\* where feature j of place p sits in a tensor of the input's shape: the
\* feature axis is the second if channel_first, else the last
FeatureAt(p, j) ==
    IF lfq.channel_first
    THEN LET per_batch == Places \div call.x.shape[1]
             b == (p - 1) \div per_batch
             r == (p - 1) % per_batch
         IN  (b * lfq.dim + (j - 1)) * per_batch + r + 1
    ELSE (p - 1) * lfq.dim + j

\* the features of codebook slot c (from 0): [c * codebook_dim, (c + 1) * codebook_dim)
SliceOf(c) == (c * lfq.codebook_dim + 1)..((c + 1) * lfq.codebook_dim)

\* the two inputs agree on the slice of slot c at place p
SameSlice(p, c) ==
    \A j \in SliceOf(c) :
        again.x.data[FeatureAt(p, j)] = call.x.data[FeatureAt(p, j)]

\* C12: for an LFQ without projections and num_codebooks > 1, the index and
\* the quantized components of slot c at a position are the same in two
\* calls whose inputs agree on that slot's slice at that position, whatever
\* the other slots and the other positions hold.
C12_SlotsAreIndependent ==
    ( /\ TwoCallsOnOneShape
      /\ ~lfq.has_projections
      /\ lfq.num_codebooks > 1 )
    => \A p \in 1..Places, c \in 0..(lfq.num_codebooks - 1) :
           SameSlice(p, c) =>
               /\ again.indices.data[(p - 1) * lfq.num_codebooks + c + 1]
                      = call.indices.data[(p - 1) * lfq.num_codebooks + c + 1]
               /\ \A j \in SliceOf(c) :
                      again.quantized.data[FeatureAt(p, j)]
                          = call.quantized.data[FeatureAt(p, j)]

\* C12 witness: a channel-first spherical object, two inputs that agree on
\* one slot of a place and differ in another slot of it and at another
\* place, the other slot's index differing
C12_Witness ==
    /\ TwoCallsOnOneShape
    /\ lfq.num_codebooks > 1
    /\ lfq.channel_first
    /\ lfq.spherical
    /\ Places > 1
    /\ SameSlice(1, 0)
    /\ ~SameSlice(1, 1)
    /\ ~SameSlice(2, 0)
    /\ again.indices.data[2] # call.indices.data[2]
    /\ again.indices.data[1] = call.indices.data[1]

(***************************************************************************)
(* Properties of the size of the entropy sample (SpecSample).              *)
(***************************************************************************)
\* C13: in training mode, for every accepted frac_per_sample_entropy and
\* every call with at least one unmasked token, the per-sample entropy and
\* the averaged distribution are computed over at least one token.
C13_EntropySampleIsNotEmpty ==
    ( /\ call.done /\ call.status = "ok" /\ call.training
      /\ call.num_tokens >= 1 )
    => /\ Len(call.per_sample_tokens) >= 1
       /\ Len(call.avg_tokens) >= 1
       /\ call.per_sample_entropy.kind # "nan"
       /\ call.batch_entropy.kind # "nan"

====
